---- MODULE Spec2Model ----
(***************************************************************************)
(* clawignore: the interactive path-selection engine (src/src/browser.ts)  *)
(* and the mount-plan compiler (src/src/docker-generator.ts), driven by    *)
(* the full-setup flow of src/src/index.ts; the ignore-list writer         *)
(* (writer.ts) and the compose-file modifier (docker.ts) of the quick      *)
(* setup.                                                                  *)
(*                                                                         *)
(* Paths, names and file contents are strings; the JavaScript string       *)
(* methods the code uses (startsWith, endsWith, includes, split, join,     *)
(* toLowerCase, trim, replace) are defined below on strings, character by  *)
(* character.  A JavaScript Set of paths is a set here: the order of       *)
(* insertion is not modelled, so the ignoredPaths of a browse result is a  *)
(* set, handed to generateDockerCompose as an array in some fixed order.   *)
(***************************************************************************)
EXTENDS Integers, Sequences, FiniteSets, TLC

VARIABLES
    disk,           \* the entries below the home directory
    isTTY,          \* process.stdin.isTTY
    pc,             \* where the full-setup flow stands
    tree,           \* browseAndSelectIgnored: the FileNode tree
    expanded,       \* paths of the nodes whose expanded flag is true
    items,          \* runSensitiveFilesOverview: the SensitiveFileItems
    flatList,       \* runIgnoreBrowser: the flattened view
    cursor,         \* the cursor of the phase that is running (0-based)
    selected,       \* runIgnoreBrowser: the Set of hidden paths
    rawMode,        \* whether stdin was put in raw mode
    outcome,        \* how the session ended: "none", "confirmed" or "cancelled"
    browserOpened,  \* runIgnoreBrowser has been called
    scenario,       \* progress of a select-directory / deselect-child sequence
    browseResult,   \* <<>> until browseAndSelectIgnored resolves, then <<result>>
    pathsToMount,   \* generateDockerCompose: allPaths minus the ignored ones
    volumeMounts,   \* generateDockerCompose: the emitted volume list
    written,        \* the artifacts written so far, in order
    reduceIn,       \* SpecReduce: the set the reduction is applied to
    reduceOut,      \* SpecReduce: the successive outputs of the reduction
    config,         \* generateDockerCompose: its DockerComposeConfig argument
    hostConfig,     \* the file ~/.openclaw/openclaw.json
    gatewayToken,   \* generateDockerCompose: the token in use, "" before a call
    onDisk,         \* the contents of the artifacts on disk, by name
    attempted,      \* the artifacts whose writeFile was called, in order
    firstRun,       \* <<>>, or <<onDisk>> as the first of two calls left them
    wFile,          \* <workspace>/.clawignore: <<>> if absent, else <<content>>
    wSupplied,      \* the patterns handed to writeClawignore and those found first
    wLast,          \* the patterns of the latest writeClawignore call
    wBefore,        \* <<wFile>> as the latest writeClawignore call found it
    wCalls,         \* the number of writeClawignore calls so far
    dcCompose,      \* the compose file of the workspace: <<>> or <<parsed object>>
    dcPatterns,     \* modifyDockerCompose: its ignoredPatterns argument
    dcJson,         \* <workspace>/.clawignore.json: <<>> or <<patterns>>
    dcResult,       \* what modifyDockerCompose returned: "none", "true", "false"
    blockChoice,    \* index.ts: the answer to 'Block all detected sensitive
                    \* files?': "all", "choose", "skip"; "none" if not asked
    preSelectedPaths \* index.ts: the local preSelectedPaths, as a set

vars == <<disk, isTTY, pc, tree, expanded, items, flatList, cursor, selected,
          rawMode, outcome, browserOpened, scenario, browseResult, pathsToMount,
          volumeMounts, written, reduceIn, reduceOut, config, hostConfig,
          gatewayToken, onDisk, attempted, firstRun, wFile, wSupplied, wLast,
          wBefore, wCalls, dcCompose, dcPatterns, dcJson, dcResult,
          blockChoice, preSelectedPaths>>

\* the variables of the ignore-list writer and of the compose-file modifier
writerVars == <<wFile, wSupplied, wLast, wBefore, wCalls>>
dockerVars == <<dcCompose, dcPatterns, dcJson, dcResult>>

\* the locals of runDockerSetupWithClawignore set before the browser opens
promptVars == <<blockChoice, preSelectedPaths>>

\* what the mount-plan compiler reads and writes
compilerVars == <<config, hostConfig, gatewayToken, onDisk, attempted, firstRun>>

\* ------------------------------------------------------------------------
\* Strings
\* ------------------------------------------------------------------------

CharAt(s, i) == SubSeq(s, i, i)

\* String.prototype.startsWith
StartsWith(s, pre) == Len(pre) <= Len(s) /\ SubSeq(s, 1, Len(pre)) = pre

\* String.prototype.endsWith
EndsWith(s, suf) ==
    Len(suf) <= Len(s) /\ SubSeq(s, Len(s) - Len(suf) + 1, Len(s)) = suf

\* String.prototype.includes
Includes(s, sub) ==
    \E i \in 1..(Len(s) - Len(sub) + 1) : SubSeq(s, i, i + Len(sub) - 1) = sub

UpperChars == "ABCDEFGHIJKLMNOPQRSTUVWXYZ"
LowerChars == "abcdefghijklmnopqrstuvwxyz"

LowerChar(c) ==
    IF \E i \in 1..Len(UpperChars) : CharAt(UpperChars, i) = c
    THEN CharAt(LowerChars, CHOOSE i \in 1..Len(UpperChars) : CharAt(UpperChars, i) = c)
    ELSE c

RECURSIVE ToLowerCase(_)
\* String.prototype.toLowerCase
ToLowerCase(s) ==
    IF s = "" THEN "" ELSE LowerChar(CharAt(s, 1)) \o ToLowerCase(Tail(s))

\* index of the first sep at or after position i, 0 if there is none
RECURSIVE IndexFrom(_, _, _)
IndexFrom(s, sep, i) ==
    IF i > Len(s) THEN 0
    ELSE IF CharAt(s, i) = sep THEN i
    ELSE IndexFrom(s, sep, i + 1)

RECURSIVE Split(_, _)
\* String.prototype.split with a one-character separator
Split(s, sep) ==
    LET k == IndexFrom(s, sep, 1) IN
    IF k = 0 THEN <<s>>
    ELSE <<SubSeq(s, 1, k - 1)>> \o Split(SubSeq(s, k + 1, Len(s)), sep)

RECURSIVE Join(_, _)
\* Array.prototype.join
Join(parts, sep) ==
    IF Len(parts) = 0 THEN ""
    ELSE IF Len(parts) = 1 THEN parts[1]
    ELSE parts[1] \o sep \o Join(Tail(parts), sep)

\* path.join(dir, name) for an absolute, normalized dir and a plain entry name
PathJoin(dir, name) == IF dir = "/" THEN "/" \o name ELSE dir \o "/" \o name

RECURSIVE StripTrailingSlashes(_)
StripTrailingSlashes(s) ==
    IF Len(s) > 1 /\ EndsWith(s, "/")
    THEN StripTrailingSlashes(SubSeq(s, 1, Len(s) - 1))
    ELSE s

\* path.basename
Basename(p) ==
    LET q     == StripTrailingSlashes(p)
        parts == Split(q, "/")
    IN  parts[Len(parts)]

Range(f) == {f[i] : i \in DOMAIN f}

\* ------------------------------------------------------------------------
\* Sensitivity classifier (browser.ts)
\* ------------------------------------------------------------------------

SYSTEM_HIDDEN ==
    {"Library", "Applications", "System", "Volumes", "private", "usr", "bin",
     "sbin", "etc", "var", "tmp", "cores", "opt", "node_modules", ".git",
     ".Trash", ".cache", ".npm", ".nvm"}

SENSITIVE_PATTERNS ==
    {".env", ".env.local", ".env.development", ".env.production",
     ".env.staging", ".ssh", ".aws", ".gcp", ".azure", ".kube", ".docker",
     ".npmrc", ".pypirc", ".netrc", ".gitconfig", ".bash_history",
     ".zsh_history", "secrets", "private", "credentials", ".credentials",
     "passwords", ".passwords"}

SENSITIVE_EXTENSIONS == {".pem", ".key", ".p12", ".pfx", ".jks", ".keystore"}

SENSITIVE_KEYWORDS ==
    {"secret", "credential", "password", "private_key", "privatekey",
     "api_key", "apikey", "token"}

isSensitivePath(name) ==
    LET lowerName == ToLowerCase(name) IN
    \/ lowerName \in SENSITIVE_PATTERNS
    \/ StartsWith(lowerName, ".env.") \/ lowerName = ".env"
    \/ \E ext \in SENSITIVE_EXTENSIONS : EndsWith(lowerName, ext)
    \/ \E keyword \in SENSITIVE_KEYWORDS : Includes(lowerName, keyword)
    \/ StartsWith(lowerName, "id_") /\ ~Includes(lowerName, ".pub")
    \/ StartsWith(lowerName, "serviceaccountkey") /\ EndsWith(lowerName, ".json")

\* the string shown next to an item of the overview
getSensitiveReason(name) ==
    LET lowerName == ToLowerCase(name) IN
    IF StartsWith(lowerName, ".env") THEN "Environment variables may contain secrets"
    ELSE IF lowerName = ".ssh" \/ StartsWith(lowerName, "id_") THEN "SSH keys and credentials"
    ELSE IF lowerName = ".aws" THEN "AWS credentials"
    ELSE IF lowerName = ".gcp" THEN "Google Cloud credentials"
    ELSE IF lowerName = ".azure" THEN "Azure credentials"
    ELSE IF lowerName = ".kube" THEN "Kubernetes credentials"
    ELSE IF lowerName = ".docker" THEN "Docker credentials"
    ELSE IF lowerName = ".npmrc" THEN "NPM authentication tokens"
    ELSE IF lowerName = ".pypirc" THEN "PyPI authentication"
    ELSE IF lowerName = ".netrc" THEN "Network credentials"
    ELSE IF lowerName = ".gitconfig" THEN "Git configuration"
    ELSE IF Includes(lowerName, "history") THEN "Command history may contain secrets"
    ELSE IF Includes(lowerName, "secret") THEN "Contains \"secret\" in name"
    ELSE IF Includes(lowerName, "credential") THEN "Contains \"credential\" in name"
    ELSE IF Includes(lowerName, "password") THEN "Contains \"password\" in name"
    ELSE IF Includes(lowerName, "private") THEN "Private data"
    ELSE IF Includes(lowerName, "token") THEN "May contain authentication tokens"
    ELSE IF Includes(lowerName, "api_key") \/ Includes(lowerName, "apikey")
         THEN "May contain API keys"
    ELSE IF EndsWith(lowerName, ".pem") \/ EndsWith(lowerName, ".key")
         THEN "Private key file"
    ELSE IF EndsWith(lowerName, ".p12") \/ EndsWith(lowerName, ".pfx")
         THEN "Certificate with private key"
    ELSE IF EndsWith(lowerName, ".jks") \/ EndsWith(lowerName, ".keystore")
         THEN "Java keystore"
    ELSE IF StartsWith(lowerName, "serviceaccount") THEN "Service account credentials"
    ELSE "Potentially sensitive file"

\* ------------------------------------------------------------------------
\* The host filesystem the session runs on
\* ------------------------------------------------------------------------

\* os.homedir()
home == "/h"

\* Every entry that may exist below the home directory: the directory it is
\* in, its name and whether it is a directory.
DiskUniverse ==
    { [dir |-> "/h",     name |-> "d",         isDir |-> TRUE],
      [dir |-> "/h/d",   name |-> "c",         isDir |-> FALSE],
      [dir |-> "/h/d",   name |-> ".env",      isDir |-> FALSE],
      [dir |-> "/h/d",   name |-> "e",         isDir |-> TRUE],
      [dir |-> "/h/d/e", name |-> "g",         isDir |-> FALSE],
      [dir |-> "/h",     name |-> ".openclaw", isDir |-> TRUE],
      [dir |-> "/h",     name |-> "f",         isDir |-> FALSE] }

EntryPath(e) == PathJoin(e.dir, e.name)

\* a disk is a set of entries in which every entry's directory exists
IsDisk(D) ==
    \A e \in D : e.dir = home \/ \E q \in D : q.isDir /\ EntryPath(q) = e.dir

Disks == {D \in SUBSET DiskUniverse : IsDisk(D)}

\* fs.readdir(dir, {withFileTypes: true})
Readdir(fs, dir) == {e \in fs : e.dir = dir}

\* fs.stat(path).isDirectory(); a path that is not on the disk cannot be
\* stat'ed
CanStat(fs, path) == \E e \in fs : EntryPath(e) = path
StatIsDirectory(fs, path) == \E e \in fs : EntryPath(e) = path /\ e.isDir

\* ------------------------------------------------------------------------
\* Filesystem tree builder (browser.ts, buildFileTree)
\* ------------------------------------------------------------------------

maxDepth == 3

\* String.prototype.localeCompare on entry names: punctuation sorts before
\* digits, digits before letters, letters alphabetically
CollationOrder == "_-.0123456789abcdefghijklmnopqrstuvwxyz"

CollationRank(c) ==
    LET l == LowerChar(c) IN
    IF \E i \in 1..Len(CollationOrder) : CharAt(CollationOrder, i) = l
    THEN CHOOSE i \in 1..Len(CollationOrder) : CharAt(CollationOrder, i) = l
    ELSE 0

RECURSIVE LocaleBefore(_, _)
\* a.localeCompare(b) < 0
LocaleBefore(a, b) ==
    IF a = "" THEN b # ""
    ELSE IF b = "" THEN FALSE
    ELSE IF CollationRank(CharAt(a, 1)) # CollationRank(CharAt(b, 1))
         THEN CollationRank(CharAt(a, 1)) < CollationRank(CharAt(b, 1))
    ELSE LocaleBefore(Tail(a), Tail(b))

\* the comparator of entries.sort: directories first, then by name
EntryBefore(a, b) ==
    IF a.isDir /\ ~b.isDir THEN TRUE
    ELSE IF ~a.isDir /\ b.isDir THEN FALSE
    ELSE LocaleBefore(a.name, b.name)

RECURSIVE SortEntries(_)
SortEntries(S) ==
    IF S = {} THEN <<>>
    ELSE LET m == CHOOSE x \in S : \A y \in S \ {x} : EntryBefore(x, y)
         IN  <<m>> \o SortEntries(S \ {m})

\* the two skip rules of the loop over the sorted entries
SkipEntry(name, depth) ==
    \/ depth = 0 /\ name \in SYSTEM_HIDDEN
    \/ /\ StartsWith(name, ".")
       /\ ~StartsWith(name, ".env")
       /\ ~StartsWith(name, ".openclaw")
       /\ ~\E s \in {"ssh", "aws", "config", "kube"} : Includes(name, s)

\* path.relative(rootPath, fullPath) for fullPath below rootPath
RelativePath(rootPath, fullPath) ==
    IF rootPath = "/" THEN SubSeq(fullPath, 2, Len(fullPath))
    ELSE SubSeq(fullPath, Len(rootPath) + 2, Len(fullPath))

RECURSIVE buildFileTree(_, _, _, _)
RECURSIVE BuildNodes(_, _, _, _, _)

\* one FileNode per kept entry; only a directory has the children field
BuildNodes(fs, sorted, dir, rootPath, depth) ==
    IF Len(sorted) = 0 THEN <<>>
    ELSE
      LET entry    == Head(sorted)
          fullPath == PathJoin(dir, entry.name)
          base     == [name         |-> entry.name,
                       path         |-> fullPath,
                       relativePath |-> RelativePath(rootPath, fullPath),
                       isDirectory  |-> entry.isDir,
                       depth        |-> depth,
                       isSensitive  |-> isSensitivePath(entry.name)]
          node     == IF entry.isDir
                      THEN [name         |-> base.name,
                            path         |-> base.path,
                            relativePath |-> base.relativePath,
                            isDirectory  |-> TRUE,
                            depth        |-> depth,
                            isSensitive  |-> base.isSensitive,
                            children     |-> buildFileTree(fs, fullPath, rootPath, depth + 1)]
                      ELSE base
          rest     == BuildNodes(fs, Tail(sorted), dir, rootPath, depth)
      IN  IF SkipEntry(entry.name, depth) THEN rest ELSE <<node>> \o rest

buildFileTree(fs, dir, rootPath, depth) ==
    IF depth >= maxDepth THEN <<>>
    ELSE BuildNodes(fs, SortEntries(Readdir(fs, dir)), dir, rootPath, depth)

HasChildren(node) == "children" \in DOMAIN node

RECURSIVE AllNodes(_)
\* every node of a tree, parents before children (pre-order)
AllNodes(nodes) ==
    IF Len(nodes) = 0 THEN <<>>
    ELSE LET node == Head(nodes) IN
         <<node>>
         \o (IF HasChildren(node) THEN AllNodes(node.children) ELSE <<>>)
         \o AllNodes(Tail(nodes))

RECURSIVE flattenTreeUnfolded(_, _)
\* as flattenTree, descending into every directory whatever its expanded flag
flattenTreeUnfolded(nodes, exp) ==
    IF Len(nodes) = 0 THEN <<>>
    ELSE LET node == Head(nodes) IN
         <<node>>
         \o (IF node.isDirectory /\ HasChildren(node)
             THEN flattenTreeUnfolded(node.children, exp) ELSE <<>>)
         \o flattenTreeUnfolded(Tail(nodes), exp)

RECURSIVE flattenTree(_, _)
\* browser.ts flattenTree; exp is the set of paths of the nodes whose
\* expanded flag is true
flattenTree(nodes, exp) ==
    IF Len(nodes) = 0 THEN <<>>
    ELSE LET node == Head(nodes) IN
         <<node>>
         \o (IF node.isDirectory /\ node.path \in exp /\ HasChildren(node)
             THEN flattenTree(node.children, exp) ELSE <<>>)
         \o flattenTree(Tail(nodes), exp)

\* collectSensitiveFiles: one item per sensitive node, in tree order
collectSensitiveFiles(t) ==
    LET result == SelectSeq(AllNodes(t), LAMBDA n : n.isSensitive) IN
    [i \in 1..Len(result) |->
        [name         |-> result[i].name,
         path         |-> result[i].path,
         relativePath |-> result[i].relativePath,
         selected     |-> TRUE,
         reason       |-> getSensitiveReason(result[i].name)]]

\* ------------------------------------------------------------------------
\* Sensitive-file scanner (scanner.ts)
\* ------------------------------------------------------------------------

\* the directory of an entry relative to the scanned directory, between
\* slashes: "/" for an entry of the scanned directory itself
RelativeDir(workspace, e) ==
    IF e.dir = workspace THEN "/"
    ELSE "/" \o RelativePath(workspace, e.dir) \o "/"

\* the name of the directory an entry is in, "" for the scanned directory
ParentName(workspace, e) == IF e.dir = workspace THEN "" ELSE Basename(e.dir)

\* a file matches one of HIGH_CONFIDENCE_PATTERNS
HighConfidenceMatch(workspace, e) ==
    LET name == e.name
        par  == ParentName(workspace, e)
        rel  == RelativeDir(workspace, e)
    IN  \/ name = ".env"
        \/ StartsWith(name, ".env.")
        \/ \E ext \in {".pem", ".key", ".p12", ".pfx", ".tfvars"} : EndsWith(name, ext)
        \/ name \in {"id_rsa", "id_ed25519", "id_ecdsa", "credentials.json",
                     "terraform.tfvars", ".npmrc", ".pypirc", "kubeconfig"}
        \/ StartsWith(name, "id_rsa.")
        \/ par = ".ssh"
        \/ Includes(rel, "/secrets/")
        \/ Includes(rel, "/.gcp/")
        \/ /\ StartsWith(name, "serviceAccountKey")
           /\ EndsWith(name, ".json")
           /\ Len(name) >= Len("serviceAccountKey") + Len(".json")
        \/ par = ".aws" /\ name \in {"credentials", "config"}
        \/ par = ".docker" /\ name = "config.json"
        \/ par = ".kube" /\ name = "config"

\* a file matches one of MEDIUM_CONFIDENCE_PATTERNS
MediumConfidenceMatch(workspace, e) ==
    LET name == e.name IN
    \/ name \in {"config.json", "settings.json"}
    \/ ParentName(workspace, e) = "config" /\ EndsWith(name, ".json")
    \/ \E w \in {"secret", "password", "credential"} : Includes(name, w)
    \/ EndsWith(name, ".sqlite")
    \/ EndsWith(name, ".db")

\* a file matches one of EXCLUDE_PATTERNS
Excluded(workspace, e) ==
    \/ \E seg \in {"node_modules", ".git", "dist", "build"} :
           Includes(RelativeDir(workspace, e), "/" \o seg \o "/")
    \/ EndsWith(e.name, ".log")
    \/ e.name \in {"package-lock.json", "yarn.lock", "pnpm-lock.yaml"}

\* the files globby looks at (onlyFiles, dot: true, ignore: EXCLUDE_PATTERNS)
ScanCandidates(fs, workspace) ==
    {e \in fs : /\ ~e.isDir
                /\ e.dir = workspace \/ StartsWith(e.dir, workspace \o "/")
                /\ ~Excluded(workspace, e)}

\* the files whose content the scanner inspects
MediumCandidates(fs, workspace) ==
    {e \in ScanCandidates(fs, workspace) : MediumConfidenceMatch(workspace, e)}

\* scanForSensitiveFiles: the paths of its result; withSecrets is the set of
\* files in which fileContainsSecrets finds a keyword
scanForSensitiveFiles(fs, workspace, withSecrets) ==
    {EntryPath(e) : e \in {q \in ScanCandidates(fs, workspace) :
                                HighConfidenceMatch(workspace, q)}}
    \cup {EntryPath(e) : e \in MediumCandidates(fs, workspace) \cap withSecrets}

\* ------------------------------------------------------------------------
\* Selection browser (browser.ts)
\* ------------------------------------------------------------------------

\* flatList[cursor] of the code; undefined when the index is out of range
HasNodeAt(flat, cur) == cur >= 0 /\ cur < Len(flat)
NodeAt(flat, cur) == flat[cur + 1]

\* Math.max / Math.min
Max(a, b) == IF a >= b THEN a ELSE b
Min(a, b) == IF a <= b THEN a ELSE b

\* the paths of the nodes of the flattened list that lie under path
FlatDescendants(flat, path) ==
    {flat[i].path : i \in {j \in DOMAIN flat : StartsWith(flat[j].path, path \o "/")}}

\* as SpaceSelected, but selecting a directory adds every descendant of the
\* tree while deselecting removes only those of the flattened list
SpaceSelectedAsymmetric(flat, cur, sel) ==
    LET node == NodeAt(flat, cur) IN
    IF node.path \in sel
    THEN IF node.isDirectory
         THEN (sel \ {node.path}) \ FlatDescendants(flat, node.path)
         ELSE sel \ {node.path}
    ELSE IF node.isDirectory
         THEN (sel \cup {node.path})
              \cup {n.path : n \in {m \in Range(AllNodes(tree)) :
                                       StartsWith(m.path, node.path \o "/")}}
         ELSE sel \cup {node.path}

\* handleKeypress, space: the Set selected after the toggle of flatList[cursor]
SpaceSelected(flat, cur, sel) ==
    LET node == NodeAt(flat, cur) IN
    IF node.path \in sel
    THEN IF node.isDirectory
         THEN (sel \ {node.path}) \ FlatDescendants(flat, node.path)
         ELSE sel \ {node.path}
    ELSE IF node.isDirectory
         THEN (sel \cup {node.path}) \cup FlatDescendants(flat, node.path)
         ELSE sel \cup {node.path}

\* as ParentPaths, with the loop stopping one step early
\* (i < parts.length - 1): the immediate parent is left out
ParentPathsShort(p) ==
    LET parts == Split(p, "/") IN
    {Join(SubSeq(parts, 1, i), "/") : i \in 1..(Len(parts) - 2)}

\* handleKeypress, return: the paths parts.slice(0, i).join('/') for
\* 1 <= i < parts.length
ParentPaths(p) ==
    LET parts == Split(p, "/") IN
    {Join(SubSeq(parts, 1, i), "/") : i \in 1..(Len(parts) - 1)}

\* as ReduceIgnored, with the two return values of the filter swapped
ReduceIgnoredSwapped(sel) == {p \in sel : \E parentPath \in ParentPaths(p) : parentPath \in sel}

\* handleKeypress, return: the filter that yields ignoredPaths
ReduceIgnored(sel) == {p \in sel : \A parentPath \in ParentPaths(p) : parentPath \notin sel}

\* as TopLevelPaths, without the filter on depth
TopLevelPathsUnfiltered(flat) == [i \in 1..Len(flat) |-> flat[i].path]

\* handleKeypress, return: allPaths
TopLevelPaths(flat) ==
    LET top == SelectSeq(flat, LAMBDA n : n.depth = 0) IN
    [i \in 1..Len(top) |-> top[i].path]

\* handleKeypress, return: the resolved BrowseResult
ReturnResult(flat, sel) ==
    [ignoredPaths |-> ReduceIgnored(sel), allPaths |-> TopLevelPaths(flat)]

\* as EscapeResult, resolving with the top-level paths as return does
EscapeResultWithPaths == [ignoredPaths |-> {}, allPaths |-> TopLevelPaths(flatList)]

\* handleKeypress, escape / ctrl-c: the resolved BrowseResult
EscapeResult == [ignoredPaths |-> {}, allPaths |-> <<>>]

\* browseAndSelectIgnored: the result returned when the overview resolves null
OverviewCancelResult == [ignoredPaths |-> {}, allPaths |-> <<>>]

\* The tree nodes strictly below path, and the children of path
TreeDescendants(t, path) ==
    {n.path : n \in {m \in Range(AllNodes(t)) : StartsWith(m.path, path \o "/")}}

TreeChildren(t, path) ==
    {n.path : n \in {m \in Range(AllNodes(t)) :
                        /\ StartsWith(m.path, path \o "/")
                        /\ ~Includes(SubSeq(m.path, Len(path) + 2, Len(m.path)), "/")}}

\* Bookkeeping of the sequence "toggle an unselected directory D none of
\* whose descendants is selected, then toggle one selected child C of D":
\* <<>> before it, <<D>> after the first toggle, <<D, C>> after the second.
\* Cursor moves, expand and collapse in between leave it as it is.
ScenarioAfterSpace(t, flat, cur, sel, scn) ==
    LET node == NodeAt(flat, cur) IN
    IF /\ Len(scn) = 1
       /\ node.path \in TreeChildren(t, scn[1])
       /\ node.path \in sel
    THEN <<scn[1], node.path>>
    ELSE IF /\ node.isDirectory
            /\ node.path \notin sel
            /\ TreeDescendants(t, node.path) \cap sel = {}
    THEN <<node.path>>
    ELSE <<>>

\* runIgnoreBrowser up to the first render
OpenBrowser(t, preSelected) ==
    /\ flatList' = flattenTree(t, expanded)
    /\ cursor' = 0
    /\ selected' = preSelected
    /\ rawMode' = isTTY
    /\ browserOpened' = TRUE
    /\ pc' = "browser"

\* browseAndSelectIgnored up to the first wait for a key
StartBrowse ==
    /\ pc = "setup"
    /\ LET t     == buildFileTree(disk, home, home, 0)
           files == collectSensitiveFiles(t)
       IN  /\ tree' = t
           /\ expanded' = {}
           /\ IF Len(files) > 0
              THEN /\ items' = files
                   /\ cursor' = 0
                   /\ rawMode' = isTTY
                   /\ pc' = "overview"
                   /\ UNCHANGED <<flatList, selected, browserOpened>>
              ELSE /\ OpenBrowser(t, {})
                   /\ UNCHANGED items
    /\ UNCHANGED <<disk, isTTY, outcome, scenario, browseResult, pathsToMount,
                   volumeMounts, written, reduceIn, reduceOut,
                compilerVars, writerVars, dockerVars, promptVars>>

\* ---- Phase A: runSensitiveFilesOverview.handleKeypress ----

OverviewFrame ==
    UNCHANGED <<disk, isTTY, tree, expanded, scenario, pathsToMount,
                volumeMounts, written, reduceIn, reduceOut,
                compilerVars, writerVars, dockerVars, promptVars>>

\* a key that leaves the session running
StillRunning == UNCHANGED <<pc, outcome, browseResult>>

OverviewUp ==
    /\ pc = "overview"
    /\ cursor' = Max(0, cursor - 1)
    /\ UNCHANGED <<items, flatList, selected, rawMode, browserOpened>>
    /\ StillRunning
    /\ OverviewFrame

OverviewDown ==
    /\ pc = "overview"
    /\ cursor' = Min(Len(items) - 1, cursor + 1)
    /\ UNCHANGED <<items, flatList, selected, rawMode, browserOpened>>
    /\ StillRunning
    /\ OverviewFrame

OverviewSpace ==
    /\ pc = "overview"
    /\ items' = [items EXCEPT ![cursor + 1].selected = ~items[cursor + 1].selected]
    /\ UNCHANGED <<cursor, flatList, selected, rawMode, browserOpened>>
    /\ StillRunning
    /\ OverviewFrame

OverviewSelectAll ==
    /\ pc = "overview"
    /\ items' = [i \in DOMAIN items |-> [items[i] EXCEPT !.selected = TRUE]]
    /\ UNCHANGED <<cursor, flatList, selected, rawMode, browserOpened>>
    /\ StillRunning
    /\ OverviewFrame

OverviewDeselectAll ==
    /\ pc = "overview"
    /\ items' = [i \in DOMAIN items |-> [items[i] EXCEPT !.selected = FALSE]]
    /\ UNCHANGED <<cursor, flatList, selected, rawMode, browserOpened>>
    /\ StillRunning
    /\ OverviewFrame

\* as OverviewSelectedPaths, without the filter on selected
OverviewAllPaths(its) == {its[i].path : i \in DOMAIN its}

\* the Set the overview resolves with on return
OverviewSelectedPaths(its) == {its[i].path : i \in {j \in DOMAIN its : its[j].selected}}

\* return in the overview, then browseAndSelectIgnored calls runIgnoreBrowser
OverviewReturn ==
    /\ pc = "overview"
    /\ OpenBrowser(tree, OverviewSelectedPaths(items))
    /\ items' = <<>>
    /\ UNCHANGED <<outcome, browseResult>>
    /\ OverviewFrame

\* escape / ctrl-c in the overview resolves null, and browseAndSelectIgnored
\* returns at once
OverviewEscape ==
    /\ pc = "overview"
    /\ rawMode' = FALSE
    /\ browseResult' = <<OverviewCancelResult>>
    /\ outcome' = "cancelled"
    /\ pc' = "returned"
    /\ items' = <<>>
    /\ cursor' = 0
    /\ UNCHANGED <<flatList, selected, browserOpened>>
    /\ OverviewFrame

\* ---- Phase B: runIgnoreBrowser.handleKeypress ----

BrowserFrame ==
    UNCHANGED <<disk, isTTY, tree, items, browserOpened, pathsToMount,
                volumeMounts, written, reduceIn, reduceOut,
                compilerVars, writerVars, dockerVars, promptVars>>

\* the flattened view, the expanded flags and the cursor live only as long
\* as the session: they are dropped when the promise resolves (selected and
\* scenario are kept as a record of the state the result was computed from)
SessionViewDiscarded ==
    /\ flatList' = <<>>
    /\ expanded' = {}
    /\ cursor' = 0

BrowserUp ==
    /\ pc = "browser"
    /\ cursor' = Max(0, cursor - 1)
    /\ UNCHANGED <<expanded, flatList, selected, rawMode, scenario>>
    /\ StillRunning
    /\ BrowserFrame

BrowserDown ==
    /\ pc = "browser"
    /\ cursor' = Min(Len(flatList) - 1, cursor + 1)
    /\ UNCHANGED <<expanded, flatList, selected, rawMode, scenario>>
    /\ StillRunning
    /\ BrowserFrame

BrowserSpace ==
    /\ pc = "browser"
    /\ HasNodeAt(flatList, cursor)
    /\ selected' = SpaceSelected(flatList, cursor, selected)
    /\ scenario' = ScenarioAfterSpace(tree, flatList, cursor, selected, scenario)
    /\ UNCHANGED <<expanded, flatList, cursor, rawMode>>
    /\ StillRunning
    /\ BrowserFrame

BrowserRight ==
    /\ pc = "browser"
    /\ HasNodeAt(flatList, cursor)
    /\ LET node == NodeAt(flatList, cursor) IN
       IF node.isDirectory /\ node.path \notin expanded
       THEN /\ expanded' = expanded \cup {node.path}
            /\ flatList' = flattenTree(tree, expanded')
       ELSE UNCHANGED <<expanded, flatList>>
    /\ UNCHANGED <<cursor, selected, rawMode, scenario>>
    /\ StillRunning
    /\ BrowserFrame

\* as BrowserLeft, with the cursor sent back to the top on a collapse
BrowserLeftCursorReset ==
    /\ pc = "browser"
    /\ HasNodeAt(flatList, cursor)
    /\ LET node == NodeAt(flatList, cursor) IN
       IF node.isDirectory /\ node.path \in expanded
       THEN /\ expanded' = expanded \ {node.path}
            /\ flatList' = flattenTree(tree, expanded')
            /\ cursor' = 0
       ELSE UNCHANGED <<expanded, flatList, cursor>>
    /\ UNCHANGED <<selected, rawMode, scenario>>
    /\ StillRunning
    /\ BrowserFrame

BrowserLeft ==
    /\ pc = "browser"
    /\ HasNodeAt(flatList, cursor)
    /\ LET node == NodeAt(flatList, cursor) IN
       IF node.isDirectory /\ node.path \in expanded
       THEN /\ expanded' = expanded \ {node.path}
            /\ flatList' = flattenTree(tree, expanded')
            /\ cursor' = Min(cursor, Len(flatList') - 1)
       ELSE UNCHANGED <<expanded, flatList, cursor>>
    /\ UNCHANGED <<selected, rawMode, scenario>>
    /\ StillRunning
    /\ BrowserFrame

\* space, right or left when flatList[cursor] is undefined: reading a
\* property of it throws inside the keypress listener
BrowserThrow ==
    /\ pc = "browser"
    /\ ~HasNodeAt(flatList, cursor)
    /\ pc' = "crashed"
    /\ UNCHANGED <<expanded, flatList, cursor, selected, rawMode, scenario,
                   outcome, browseResult>>
    /\ BrowserFrame

BrowserReturn ==
    /\ pc = "browser"
    /\ rawMode' = FALSE
    /\ browseResult' = <<ReturnResult(flatList, selected)>>
    /\ outcome' = "confirmed"
    /\ pc' = "returned"
    /\ SessionViewDiscarded
    /\ UNCHANGED <<selected, scenario>>
    /\ BrowserFrame

BrowserEscape ==
    /\ pc = "browser"
    /\ rawMode' = FALSE
    /\ browseResult' = <<EscapeResult>>
    /\ outcome' = "cancelled"
    /\ pc' = "returned"
    /\ SessionViewDiscarded
    /\ UNCHANGED <<selected, scenario>>
    /\ BrowserFrame

\* ------------------------------------------------------------------------
\* Mount plan compiler (docker-generator.ts)
\* ------------------------------------------------------------------------

\* as isIgnored, with the prefix test made on the bare ignored path
isIgnoredBarePrefix(path, ignoredPaths) ==
    \E ignored \in ignoredPaths : path = ignored \/ StartsWith(path, ignored)

isIgnored(path, ignoredPaths) ==
    \E ignored \in ignoredPaths : path = ignored \/ StartsWith(path, ignored \o "/")

runtimeDirs ==
    <<"memory", "logs", "canvas", "media", "cron", "agents", "subagents",
      "telegram", "delivery-queue", "devices", "identity">>

\* the mounts pushed before the loop over pathsToMount
BaselineMounts ==
    <<home \o "/.openclaw/openclaw.docker.json:/home/node/.openclaw/openclaw.json:ro",
      home \o "/.openclaw/credentials:/home/node/.openclaw/credentials:ro">>
    \o [i \in 1..Len(runtimeDirs) |->
          home \o "/.openclaw/" \o runtimeDirs[i] \o ":/home/node/.openclaw/" \o runtimeDirs[i]]
    \o <<home \o "/.openclaw/.clawignore:/home/node/.openclaw/.clawignore:ro",
         home \o "/.openclaw/workspace:/home/node/.openclaw/workspace">>

RECURSIVE SelectedMountsNoStat(_, _)
\* as SelectedMounts, without the stat of the source path
SelectedMountsNoStat(fs, paths) ==
    IF Len(paths) = 0 THEN <<>>
    ELSE LET sourcePath == Head(paths)
             mountName  == Basename(sourcePath)
             rest       == SelectedMountsNoStat(fs, Tail(paths))
         IN  IF mountName = ".openclaw" \/ EndsWith(sourcePath, "/.openclaw")
             THEN rest
             ELSE <<sourcePath \o ":" \o "/home/node/.openclaw/workspace/" \o mountName>> \o rest

RECURSIVE SelectedMounts(_, _)
\* the loop over pathsToMount
SelectedMounts(fs, paths) ==
    IF Len(paths) = 0 THEN <<>>
    ELSE LET sourcePath == Head(paths)
             mountName  == Basename(sourcePath)
             rest       == SelectedMounts(fs, Tail(paths))
         IN  IF mountName = ".openclaw" \/ EndsWith(sourcePath, "/.openclaw")
             THEN rest
             ELSE IF ~CanStat(fs, sourcePath) \/ ~StatIsDirectory(fs, sourcePath)
             THEN rest
             ELSE <<sourcePath \o ":" \o "/home/node/.openclaw/workspace/" \o mountName>> \o rest

\* as generateVolumeMounts, with the selected paths pushed first
generateVolumeMountsSelectedFirst(fs, paths) == SelectedMounts(fs, paths) \o BaselineMounts

generateVolumeMounts(fs, paths) == BaselineMounts \o SelectedMounts(fs, paths)

\* the host side of a "host:container[:ro]" volume entry
MountHost(m) == Split(m, ":")[1]

\* the container side of a "host:container[:ro]" volume entry
MountContainer(m) == Split(m, ":")[2]

\* allPaths.filter(p => !isIgnored(p, ignoredPaths))
PathsToMount(allPaths, ignoredPaths) ==
    SelectSeq(allPaths, LAMBDA q : ~isIgnored(q, Range(ignoredPaths)))

DOCKER_IMAGE == "alpine/openclaw:latest"

\* volumeMounts.map(m => `      - "${m}"`).join('\n')
VolumesYaml(mounts) ==
    Join([i \in DOMAIN mounts |-> "      - \"" \o mounts[i] \o "\""], "\n")

generateComposeYaml(mounts) ==
    "# Generated by clawignore\n"
    \o "# https://github.com/wuyuwenj/clawignore\n"
    \o "#\n"
    \o "# Only folders NOT in .clawignore are mounted.\n"
    \o "# To update, run: npx clawignore\n"
    \o "\n"
    \o "services:\n"
    \o "  openclaw-gateway:\n"
    \o "    image: " \o DOCKER_IMAGE \o "\n"
    \o "    container_name: openclaw-gateway\n"
    \o "    environment:\n"
    \o "      HOME: /home/node\n"
    \o "      TERM: xterm-256color\n"
    \o "      OPENCLAW_GATEWAY_TOKEN: ${OPENCLAW_GATEWAY_TOKEN}\n"
    \o "      OPENCLAW_WORKSPACE_DIR: /home/node/.openclaw/workspace\n"
    \o "    volumes:\n"
    \o VolumesYaml(mounts) \o "\n"
    \o "    ports:\n"
    \o "      - \"${OPENCLAW_GATEWAY_PORT:-18789}:18789\"\n"
    \o "      - \"${OPENCLAW_BRIDGE_PORT:-18790}:18790\"\n"
    \o "    init: true\n"
    \o "    restart: unless-stopped\n"
    \o "    command:\n"
    \o "      [\n"
    \o "        \"node\",\n"
    \o "        \"dist/index.js\",\n"
    \o "        \"gateway\",\n"
    \o "        \"--bind\",\n"
    \o "        \"${OPENCLAW_GATEWAY_BIND:-lan}\",\n"
    \o "        \"--port\",\n"
    \o "        \"18789\",\n"
    \o "      ]\n"
    \o "\n"
    \o "  openclaw-cli:\n"
    \o "    image: " \o DOCKER_IMAGE \o "\n"
    \o "    container_name: openclaw-cli\n"
    \o "    environment:\n"
    \o "      HOME: /home/node\n"
    \o "      TERM: xterm-256color\n"
    \o "      OPENCLAW_GATEWAY_TOKEN: ${OPENCLAW_GATEWAY_TOKEN}\n"
    \o "      OPENCLAW_WORKSPACE_DIR: /home/node/.openclaw/workspace\n"
    \o "      BROWSER: echo\n"
    \o "    volumes:\n"
    \o VolumesYaml(mounts) \o "\n"
    \o "    stdin_open: true\n"
    \o "    tty: true\n"
    \o "    init: true\n"
    \o "    profiles:\n"
    \o "      - cli\n"
    \o "    entrypoint: [\"node\", \"dist/index.js\"]\n"

\* the lines of the .env artifact
EnvLines(tok) ==
    <<"# Generated by clawignore",
      "# OpenClaw Docker configuration",
      "",
      "OPENCLAW_CONFIG_DIR=" \o home \o "/.openclaw",
      "OPENCLAW_WORKSPACE_DIR=" \o home \o "/.openclaw/workspace",
      "OPENCLAW_GATEWAY_PORT=18789",
      "OPENCLAW_BRIDGE_PORT=18790",
      "OPENCLAW_GATEWAY_BIND=lan",
      "OPENCLAW_GATEWAY_TOKEN=" \o tok>>

generateEnvFile(tok) == Join(EnvLines(tok), "\n") \o "\n"

\* the lines array of generateClawignore
ClawignoreLines(ignoredPaths) ==
    <<"# Clawignore - Files hidden from OpenClaw",
      "# Generated by clawignore",
      "# These paths are NOT mounted into the Docker container",
      "">> \o ignoredPaths

generateClawignore(ignoredPaths) == Join(ClawignoreLines(ignoredPaths), "\n") \o "\n"

RECURSIVE ReplaceAll(_, _, _)
\* String.prototype.replace with a global pattern that matches from literally
ReplaceAll(s, from, to) ==
    IF s = "" THEN ""
    ELSE IF StartsWith(s, from)
    THEN to \o ReplaceAll(SubSeq(s, Len(from) + 1, Len(s)), from, to)
    ELSE CharAt(s, 1) \o ReplaceAll(Tail(s), from, to)

\* JSON.stringify({agents: {defaults: {workspace: ...}}}, null, 2)
MinimalDockerConfig ==
    "{\n"
    \o "  \"agents\": {\n"
    \o "    \"defaults\": {\n"
    \o "      \"workspace\": \"/home/node/.openclaw/workspace\"\n"
    \o "    }\n"
    \o "  }\n"
    \o "}"

\* ~/.openclaw/openclaw.json: readFile rejects (absent or unreadable), or it
\* resolves with a content that JSON.parse accepts (wellFormed) or rejects
AbsentConfig == [readable |-> FALSE, wellFormed |-> FALSE, content |-> ""]

HostConfigs ==
    {AbsentConfig,
     [readable |-> TRUE, wellFormed |-> TRUE,
      content |-> "{\"agents\":{\"defaults\":{\"workspace\":\"" \o home \o "/.openclaw/workspace\"}}}"],
     [readable |-> TRUE, wellFormed |-> FALSE,
      content |-> "{\"agents\": {\"workspace\": \"" \o home \o "/w\""]}

generateDockerConfig(hc) ==
    IF hc.readable
    THEN ReplaceAll(hc.content, home, "/home/node")
    ELSE MinimalDockerConfig

\* values generateToken can return (64 characters drawn from "abcdef0123456789")
GeneratedTokens ==
    {"0123456789abcdef0123456789abcdef0123456789abcdef0123456789abcdef",
     "fedcba9876543210fedcba9876543210fedcba9876543210fedcba9876543210"}

\* as TokenInUse, with generateToken called whatever the configuration holds
TokenAlwaysGenerated(cfg, generated) == generated

\* config.gatewayToken || generateToken(): an absent token is <<>>
TokenInUse(cfg, generated) ==
    IF cfg.gatewayToken # <<>> /\ cfg.gatewayToken[1] # ""
    THEN cfg.gatewayToken[1]
    ELSE generated

\* the four artifacts in the order generateDockerCompose writes them
Artifacts == <<"docker-compose.yml", ".env", ".clawignore", "openclaw.docker.json">>

\* the content generateDockerCompose has computed for an artifact
ArtifactContent(name) ==
    CASE name = "docker-compose.yml"   -> generateComposeYaml(volumeMounts)
      [] name = ".env"                 -> generateEnvFile(gatewayToken)
      [] name = ".clawignore"          -> generateClawignore(config.ignoredPaths)
      [] name = "openclaw.docker.json" -> generateDockerConfig(hostConfig)

NoConfig ==
    [openclawRoot |-> "", allPaths |-> <<>>, ignoredPaths |-> <<>>,
     gatewayToken |-> <<>>]

\* the path generateDockerCompose writes an artifact to
ArtifactPath(openclawRoot, name) == PathJoin(openclawRoot, name)

NoFiles == [n \in {} |-> ""]

\* generateDockerCompose(cfg) up to the first writeFile
GenerateDockerCompose(cfg) ==
    /\ config' = cfg
    /\ \E generated \in GeneratedTokens : gatewayToken' = TokenInUse(cfg, generated)
    /\ pathsToMount' = PathsToMount(cfg.allPaths, cfg.ignoredPaths)
    /\ volumeMounts' = generateVolumeMounts(disk, pathsToMount')
    /\ written' = <<>>
    /\ attempted' = <<>>
    /\ pc' = "writing"
    /\ UNCHANGED onDisk

\* ------------------------------------------------------------------------
\* Full-setup flow (index.ts, runDockerSetupWithClawignore)
\* ------------------------------------------------------------------------

CallerFrame ==
    UNCHANGED <<disk, isTTY, tree, expanded, items, flatList, cursor, selected,
                rawMode, outcome, browserOpened, scenario, browseResult,
                reduceIn, reduceOut, hostConfig, firstRun, writerVars, dockerVars, promptVars>>

\* index.ts 274-331: the scan of the home directory, then the prompt
\* 'Block all detected sensitive files?' when the scan found something
ScanAndAsk ==
    /\ pc = "scan"
    /\ \E withSecrets \in SUBSET MediumCandidates(disk, home) :
         LET sensitiveFiles == scanForSensitiveFiles(disk, home, withSecrets) IN
         IF sensitiveFiles # {}
         THEN \E choice \in {"all", "choose", "skip"} :
                /\ blockChoice' = choice
                /\ preSelectedPaths' = IF choice = "skip" THEN {} ELSE sensitiveFiles
         ELSE /\ blockChoice' = "none"
              /\ preSelectedPaths' = {}
    /\ pc' = "setup"
    /\ UNCHANGED <<pathsToMount, volumeMounts, written, config, gatewayToken,
                   onDisk, attempted>>
    /\ UNCHANGED <<disk, isTTY, tree, expanded, items, flatList, cursor, selected,
                   rawMode, outcome, browserOpened, scenario, browseResult,
                   reduceIn, reduceOut, hostConfig, firstRun, writerVars, dockerVars>>

\* index.ts 311-314: the prompt is cancelled, process.exit(0)
BlockPromptCancel ==
    /\ pc = "scan"
    /\ \E withSecrets \in SUBSET MediumCandidates(disk, home) :
         scanForSensitiveFiles(disk, home, withSecrets) # {}
    /\ pc' = "exit0"
    /\ UNCHANGED <<pathsToMount, volumeMounts, written, config, gatewayToken,
                   onDisk, attempted>>
    /\ CallerFrame

\* as NoFoldersFound, with the check left out
NoFoldersFoundNever(result) == FALSE

\* index.ts: if (allPaths.length === 0) { ... process.exit(0) }
NoFoldersFound(result) == Len(result.allPaths) = 0

ExitNoFolders ==
    /\ pc = "returned"
    /\ NoFoldersFound(browseResult[1])
    /\ pc' = "exit0"
    /\ UNCHANGED <<pathsToMount, volumeMounts, written, config, gatewayToken,
                   onDisk, attempted>>
    /\ CallerFrame

RECURSIVE ArrayOf(_)
\* the elements of a Set as an array (the order of a Set is not modelled)
ArrayOf(S) ==
    IF S = {} THEN <<>>
    ELSE LET x == CHOOSE y \in S : TRUE IN <<x>> \o ArrayOf(S \ {x})

\* docker.ts getOpenClawWorkspace: the candidate locations, in order
possiblePaths ==
    << PathJoin(PathJoin(home, "openclaw"), "workspace"),
       PathJoin(PathJoin(home, ".openclaw"), "workspace"),
       PathJoin(home, "openclaw"),
       PathJoin(home, ".openclaw") >>

\* process.env.OPENCLAW_WORKSPACE_DIR: in the runs modelled it names an
\* accessible directory outside the home directory (without a workspace
\* index.ts exits before the setup starts)
envWorkspace == "/srv/openclaw/workspace"

\* the first candidate that exists, else the directory the environment names
getOpenClawWorkspace(fs) ==
    LET found == SelectSeq(possiblePaths, LAMBDA q : CanStat(fs, q)) IN
    IF Len(found) > 0 THEN found[1] ELSE envWorkspace

\* index.ts: workspace.replace(/\/workspace\/?$/, '')
OpenclawRootOf(workspace) ==
    IF EndsWith(workspace, "/workspace/")
    THEN SubSeq(workspace, 1, Len(workspace) - Len("/workspace/"))
    ELSE IF EndsWith(workspace, "/workspace")
    THEN SubSeq(workspace, 1, Len(workspace) - Len("/workspace"))
    ELSE workspace

\* index.ts: generateDockerCompose({openclawRoot, allPaths, ignoredPaths})
Generate ==
    /\ pc = "returned"
    /\ ~NoFoldersFound(browseResult[1])
    /\ GenerateDockerCompose([openclawRoot |-> OpenclawRootOf(getOpenClawWorkspace(disk)),
                              allPaths     |-> browseResult[1].allPaths,
                              ignoredPaths |-> ArrayOf(browseResult[1].ignoredPaths),
                              gatewayToken |-> <<>>])
    /\ CallerFrame

\* one await writeFile(...) that succeeds
WriteFile ==
    /\ pc = "writing"
    /\ LET name == Artifacts[Len(written) + 1]
       IN  /\ attempted' = Append(attempted, name)
           /\ written' = Append(written, name)
           /\ onDisk' = (name :> ArtifactContent(name)) @@ onDisk
    /\ pc' = IF Len(written') = Len(Artifacts) THEN "done" ELSE "writing"
    /\ UNCHANGED <<pathsToMount, volumeMounts, config, gatewayToken>>
    /\ CallerFrame

\* as WriteFileFails, with the rejected write tried again
WriteFileFailsRetried ==
    /\ pc = "writing"
    /\ attempted' = Append(attempted, Artifacts[Len(written) + 1])
    /\ pc' = "writing"
    /\ UNCHANGED <<pathsToMount, volumeMounts, written, config, gatewayToken, onDisk>>
    /\ CallerFrame

\* one await writeFile(...) that rejects: generateDockerCompose rejects
WriteFileFails ==
    /\ pc = "writing"
    /\ attempted' = Append(attempted, Artifacts[Len(written) + 1])
    /\ pc' = "rejected"
    /\ UNCHANGED <<pathsToMount, volumeMounts, written, config, gatewayToken, onDisk>>
    /\ CallerFrame

\* ------------------------------------------------------------------------
\* Ignore-list writer of the quick setup (writer.ts)
\* ------------------------------------------------------------------------

HEADER ==
    "# Clawignore - Files hidden from OpenClaw AI agent\n"
    \o "# Uses .gitignore syntax\n"
    \o "# https://github.com/yourrepo/clawignore-setup\n"
    \o "#\n"
    \o "# Files listed here will not be mounted into the Docker container,\n"
    \o "# making them completely inaccessible to the AI agent.\n"
    \o "\n"

\* the keys of the groups object, in the order Object.entries yields them
Categories == <<"secrets", "credentials", "keys", "config", "data", "custom">>

CATEGORY_COMMENTS ==
    [c \in Range(Categories) |->
        CASE c = "secrets"     -> "# Secrets & environment variables"
          [] c = "credentials" -> "# Credentials & auth tokens"
          [] c = "keys"        -> "# Private keys & certificates"
          [] c = "config"      -> "# Configuration files"
          [] c = "data"        -> "# Data files"
          [] c = "custom"      -> "# Custom patterns"]

categorizePattern(pattern) ==
    LET lower == ToLowerCase(pattern) IN
    IF \E k \in {".env", "secret", "password"} : Includes(lower, k)
    THEN "secrets"
    ELSE IF \E k \in {"credential", ".aws", ".gcp", ".npmrc", ".pypirc", "kube", "token"} :
                Includes(lower, k)
    THEN "credentials"
    ELSE IF \E k \in {".pem", ".key", ".p12", ".pfx", "id_rsa", "id_ed25519",
                      "id_ecdsa", ".ssh"} : Includes(lower, k)
    THEN "keys"
    ELSE IF \E k \in {"config", ".tfvars", "settings"} : Includes(lower, k)
    THEN "config"
    ELSE IF \E k \in {".db", ".sqlite", ".xlsx", ".csv", "data"} : Includes(lower, k)
    THEN "data"
    ELSE "custom"

\* the characters String.prototype.trim removes
IsWhitespace(c) == c \in {" ", "\t", "\n", "\r"}

RECURSIVE TrimStart(_)
TrimStart(s) ==
    IF s # "" /\ IsWhitespace(CharAt(s, 1)) THEN TrimStart(Tail(s)) ELSE s

RECURSIVE TrimEnd(_)
\* String.prototype.trimEnd
TrimEnd(s) ==
    IF s # "" /\ IsWhitespace(CharAt(s, Len(s)))
    THEN TrimEnd(SubSeq(s, 1, Len(s) - 1))
    ELSE s

\* String.prototype.trim
Trim(s) == TrimEnd(TrimStart(s))

\* the lines of a content that are neither blank nor comments, trimmed
parseExistingPatterns(content) ==
    LET lines   == Split(content, "\n")
        trimmed == [i \in DOMAIN lines |-> Trim(lines[i])]
    IN  SelectSeq(trimmed, LAMBDA l : l # "" /\ ~StartsWith(l, "#"))

RECURSIVE Dedup(_)
\* [...new Set(array)]: the first occurrence of every element, in order
Dedup(arr) ==
    IF arr = <<>> THEN <<>>
    ELSE LET init == Dedup(SubSeq(arr, 1, Len(arr) - 1))
             last == arr[Len(arr)]
         IN  IF last \in Range(init) THEN init ELSE Append(init, last)

\* as MergePatterns, with the patterns of the existing file left out
MergePatternsNewOnly(existingPatterns, patterns) == Dedup(patterns)

\* [...new Set([...existingPatterns, ...patterns])]
MergePatterns(existingPatterns, patterns) == Dedup(existingPatterns \o patterns)

groupPatterns(patterns) ==
    [c \in Range(Categories) |-> SelectSeq(patterns, LAMBDA q : categorizePattern(q) = c)]

RECURSIVE CategorySections(_, _)
\* the loop over Object.entries(grouped), from category number i on
CategorySections(grouped, i) ==
    IF i > Len(Categories) THEN ""
    ELSE LET categoryPatterns == grouped[Categories[i]]
             rest             == CategorySections(grouped, i + 1)
         IN  IF Len(categoryPatterns) = 0 THEN rest
             ELSE CATEGORY_COMMENTS[Categories[i]] \o "\n"
                  \o Join(categoryPatterns, "\n") \o "\n"
                  \o "\n" \o rest

\* the content writeClawignore writes, given the content it found (<<>> when
\* the file cannot be read) and its patterns argument
WriteClawignoreContent(found, patterns) ==
    LET existingPatterns == IF found = <<>> THEN <<>> ELSE parseExistingPatterns(found[1])
        allPatterns      == MergePatterns(existingPatterns, patterns)
        content          == HEADER \o CategorySections(groupPatterns(allPatterns), 1)
    IN  TrimEnd(content) \o "\n"

\* ------------------------------------------------------------------------
\* Compose-file modifier of the quick setup (docker.ts)
\* ------------------------------------------------------------------------

\* the workspace argument of modifyDockerCompose
Workspace == home \o "/.openclaw/workspace"

DockerFrame ==
    UNCHANGED <<disk, isTTY, tree, expanded, items, flatList, cursor, selected,
                rawMode, outcome, browserOpened, scenario, browseResult,
                pathsToMount, volumeMounts, written, reduceIn, reduceOut,
                compilerVars, writerVars, dcPatterns, promptVars>>

\* services.gateway || services.openclaw || services.claw: <<>> when all
\* three are missing, else <<the key that was found>>
GatewayServiceKey(compose) ==
    LET services == compose.services
    IN  IF "gateway" \in DOMAIN services THEN <<"gateway">>
        ELSE IF "openclaw" \in DOMAIN services THEN <<"openclaw">>
        ELSE IF "claw" \in DOMAIN services THEN <<"claw">>
        ELSE <<>>

\* volumes.findIndex(v => v.includes('/workspace') || v.includes('OPENCLAW_WORKSPACE')) !== -1
HasWorkspaceVolume(volumes) ==
    \E i \in DOMAIN volumes :
        Includes(volumes[i], "/workspace") \/ Includes(volumes[i], "OPENCLAW_WORKSPACE")

\* the compose file is there, parses, and has a gateway service with a
\* workspace volume
CanModify ==
    /\ dcCompose # <<>>
    /\ dcCompose[1].parses
    /\ GatewayServiceKey(dcCompose[1]) # <<>>
    /\ HasWorkspaceVolume(dcCompose[1].services[GatewayServiceKey(dcCompose[1])[1]].volumes)

\* Number.prototype.toString for the lengths that occur
LengthToString(n) == CASE n = 0 -> "0" [] n = 1 -> "1" [] n = 2 -> "2" [] n = 3 -> "3" [] OTHER -> "many"

\* the parsed compose object after the two labels are set
WithLabels(compose, patterns) ==
    LET key == GatewayServiceKey(compose)[1]
        svc == compose.services[key]
    IN  [compose EXCEPT !.services[key] =
            [svc EXCEPT !.labels =
                ("clawignore.enabled" :> "true"
                 @@ "clawignore.patterns" :> LengthToString(Len(patterns)))
                @@ svc.labels]]

\* modifyDockerCompose returns false before it writes anything
ModifyGivesUp ==
    /\ pc = "modify"
    /\ ~CanModify
    /\ dcResult' = "false"
    /\ pc' = "modified"
    /\ UNCHANGED <<dcCompose, dcJson>>
    /\ DockerFrame

\* modifyDockerCompose: both writes succeed
ModifyDockerCompose ==
    /\ pc = "modify"
    /\ CanModify
    /\ dcJson' = <<dcPatterns>>
    /\ dcCompose' = <<WithLabels(dcCompose[1], dcPatterns)>>
    /\ dcResult' = "true"
    /\ pc' = "modified"
    /\ DockerFrame

\* modifyDockerCompose: the write of .clawignore.json or the write of the
\* compose file rejects, and the catch returns false
ModifyWriteFails ==
    /\ pc = "modify"
    /\ CanModify
    /\ \/ UNCHANGED dcJson
       \/ dcJson' = <<dcPatterns>>
    /\ dcResult' = "false"
    /\ pc' = "modified"
    /\ UNCHANGED dcCompose
    /\ DockerFrame

\* ------------------------------------------------------------------------
\* Specification of the full-setup flow
\* ------------------------------------------------------------------------

Idle ==
    /\ tree = <<>>
    /\ expanded = {}
    /\ items = <<>>
    /\ flatList = <<>>
    /\ cursor = 0
    /\ selected = {}
    /\ rawMode = FALSE
    /\ outcome = "none"
    /\ browserOpened = FALSE
    /\ scenario = <<>>
    /\ browseResult = <<>>
    /\ pathsToMount = <<>>
    /\ volumeMounts = <<>>
    /\ written = <<>>
    /\ gatewayToken = ""
    /\ onDisk = NoFiles
    /\ attempted = <<>>
    /\ firstRun = <<>>
    /\ blockChoice = "none"
    /\ preSelectedPaths = {}

\* writeClawignore has not been called
WriterIdle ==
    /\ wFile = <<>>
    /\ wSupplied = {}
    /\ wLast = <<>>
    /\ wBefore = <<>>
    /\ wCalls = 0

\* modifyDockerCompose has not been called
DockerIdle ==
    /\ dcCompose = <<>>
    /\ dcPatterns = <<>>
    /\ dcJson = <<>>
    /\ dcResult = "none"

Init ==
    /\ disk \in Disks
    /\ isTTY \in BOOLEAN
    /\ hostConfig = AbsentConfig
    /\ config = NoConfig
    /\ pc = "scan"
    /\ Idle
    /\ WriterIdle
    /\ DockerIdle
    /\ reduceIn = {}
    /\ reduceOut = <<>>

Next ==
    \/ ScanAndAsk
    \/ BlockPromptCancel
    \/ StartBrowse
    \/ OverviewUp
    \/ OverviewDown
    \/ OverviewSpace
    \/ OverviewSelectAll
    \/ OverviewDeselectAll
    \/ OverviewReturn
    \/ OverviewEscape
    \/ BrowserUp
    \/ BrowserDown
    \/ BrowserSpace
    \/ BrowserRight
    \/ BrowserLeft
    \/ BrowserThrow
    \/ BrowserReturn
    \/ BrowserEscape
    \/ ExitNoFolders
    \/ Generate
    \/ WriteFile
    \/ WriteFileFails

Spec == Init /\ [][Next]_vars

\* ------------------------------------------------------------------------
\* Specification of the full setup on home directories with nested
\* directories beyond the depth bound and with names the classifier flags
\* ------------------------------------------------------------------------

Entry(dir, name, isDir) == [dir |-> dir, name |-> name, isDir |-> isDir]

\* a chain of directories that goes below the depth bound
DeepDisk ==
    { Entry("/h", "a", TRUE),
      Entry("/h/a", "b", TRUE),
      Entry("/h/a/b", "c", TRUE),
      Entry("/h/a/b/c", "x", FALSE),
      Entry("/h/a/b/c", "w", TRUE),
      Entry("/h/a/b/c/w", "z", FALSE) }

\* names of SENSITIVE_PATTERNS, of SYSTEM_HIDDEN and of the other rules
SensitiveDisk ==
    { Entry("/h", ".ssh", TRUE),
      Entry("/h/.ssh", "id_rsa", FALSE),
      Entry("/h", ".env", FALSE),
      Entry("/h", "token.pem", FALSE),
      Entry("/h", ".docker", TRUE),
      Entry("/h/.docker", "config.json", FALSE),
      Entry("/h", ".npmrc", FALSE),
      Entry("/h", "private", TRUE),
      Entry("/h", "n", FALSE) }

\* a home directory all of whose entries buildFileTree skips
HiddenDisk ==
    { Entry("/h", ".bashrc", FALSE),
      Entry("/h", "Library", TRUE) }

TreeDisks == {DeepDisk, SensitiveDisk, HiddenDisk}

InitTree ==
    /\ disk \in TreeDisks
    /\ isTTY \in BOOLEAN
    /\ hostConfig = AbsentConfig
    /\ config = NoConfig
    /\ pc = "scan"
    /\ Idle
    /\ WriterIdle
    /\ DockerIdle
    /\ reduceIn = {}
    /\ reduceOut = <<>>

SpecTree == InitTree /\ [][Next]_vars

\* ------------------------------------------------------------------------
\* Specification that applies the reduction of handleKeypress (return) to
\* arbitrary sets of absolute paths, twice in a row
\* ------------------------------------------------------------------------

ReducePaths == {"/", "/a", "/a/b", "/a/b/c", "/ab", "/ab/c", "/b", "/b/a"}

InitReduce ==
    /\ disk = {}
    /\ isTTY = TRUE
    /\ hostConfig = AbsentConfig
    /\ config = NoConfig
    /\ pc = "reduce"
    /\ Idle
    /\ WriterIdle
    /\ DockerIdle
    /\ reduceIn \in SUBSET ReducePaths
    /\ reduceOut = <<>>

ReduceStep ==
    /\ pc = "reduce"
    /\ Len(reduceOut) < 2
    /\ reduceOut' = Append(reduceOut,
                           ReduceIgnored(IF reduceOut = <<>> THEN reduceIn
                                         ELSE reduceOut[Len(reduceOut)]))
    /\ UNCHANGED <<disk, isTTY, pc, tree, expanded, items, flatList, cursor,
                   selected, rawMode, outcome, browserOpened, scenario,
                   browseResult, pathsToMount, volumeMounts, written, reduceIn,
                   compilerVars, writerVars, dockerVars, promptVars>>

NextReduce == ReduceStep

SpecReduce == InitReduce /\ [][NextReduce]_vars

\* ------------------------------------------------------------------------
\* Specification that calls generateDockerCompose directly, twice in a row,
\* with arbitrary configurations
\* ------------------------------------------------------------------------

\* the longest allPaths array handed to generateDockerCompose
MaxPaths == 3

\* what fs.stat sees: directories, one regular file, and no /h/gone
CompileDisk ==
    { [dir |-> "/a", name |-> "data",        isDir |-> TRUE],
      [dir |-> "/b", name |-> "data",        isDir |-> TRUE],
      [dir |-> "/h", name |-> "Documents",   isDir |-> TRUE],
      [dir |-> "/h", name |-> ".ssh",        isDir |-> TRUE],
      [dir |-> "/h", name |-> ".ssh-backup", isDir |-> TRUE],
      [dir |-> "/h", name |-> ".openclaw",   isDir |-> TRUE],
      [dir |-> "/h", name |-> "f",           isDir |-> FALSE] }

CompilePaths ==
    {"/a/data", "/b/data", "/h/Documents", "/h/.ssh", "/h/.ssh-backup",
     "/h/.openclaw", "/h/f", "/h/gone"}

DeniedChoices ==
    {<<>>, <<"/h/.ssh">>, <<"/a">>, <<"/h/.ssh", "/h/Documents">>,
     <<"/h/.ssh", "/h/.ssh">>}

\* arrays of at most n elements of S
SeqsUpTo(S, n) == UNION {[1..k -> S] : k \in 0..n}

ExplicitToken == "tok-1"

\* the directories index.ts derives from the workspaces discovery can yield
OpenclawRoots == {OpenclawRootOf(possiblePaths[i]) : i \in DOMAIN possiblePaths}

InitCompile ==
    /\ disk = CompileDisk
    /\ isTTY = TRUE
    /\ pc = "compile"
    /\ Idle
    /\ WriterIdle
    /\ DockerIdle
    /\ reduceIn = {}
    /\ reduceOut = <<>>
    /\ \/ /\ hostConfig = AbsentConfig
          /\ config \in [openclawRoot : {PathJoin(home, ".openclaw")},
                         allPaths     : SeqsUpTo(CompilePaths, MaxPaths),
                         ignoredPaths : DeniedChoices,
                         gatewayToken : {<<ExplicitToken>>}]
       \/ /\ hostConfig \in HostConfigs
          /\ config \in [openclawRoot : OpenclawRoots,
                         allPaths     : {<<>>, <<"/h/Documents">>},
                         ignoredPaths : {<<>>, <<"/h/.ssh">>},
                         gatewayToken : {<<>>, <<"">>, <<ExplicitToken>>}]

\* a call of generateDockerCompose(config) up to the first writeFile
CompileCall ==
    /\ pc = "compile"
    /\ GenerateDockerCompose(config)
    /\ CallerFrame

\* after a call that resolved: the same call once more, nothing else changed
CompileAgain ==
    /\ pc = "done"
    /\ firstRun = <<>>
    /\ firstRun' = <<onDisk>>
    /\ pc' = "compile"
    /\ UNCHANGED <<disk, isTTY, tree, expanded, items, flatList, cursor,
                   selected, rawMode, outcome, browserOpened, scenario,
                   browseResult, pathsToMount, volumeMounts, written, reduceIn,
                   reduceOut, config, hostConfig, gatewayToken, onDisk,
                   attempted, writerVars, dockerVars, promptVars>>

NextCompile ==
    \/ CompileCall
    \/ CompileAgain
    \/ WriteFile
    \/ WriteFileFails

SpecCompile == InitCompile /\ [][NextCompile]_vars

\* ------------------------------------------------------------------------
\* Specification that calls writeClawignore repeatedly on one workspace
\* ------------------------------------------------------------------------

\* the longest patterns array of a call, and the number of calls
MaxPatterns == 2
MaxCalls == 3

WriterPatterns == {".env", "id_rsa", "#todo"}

\* <workspace>/.clawignore before the first call: absent, or edited by hand
InitialFiles ==
    {<<>>, <<"notes.txt\n.env\n">>, <<"# mine\nid_rsa\n\n  id_rsa\n">>}

InitWriter ==
    /\ disk = {}
    /\ isTTY = TRUE
    /\ hostConfig = AbsentConfig
    /\ config = NoConfig
    /\ pc = "writer"
    /\ Idle
    /\ DockerIdle
    /\ reduceIn = {}
    /\ reduceOut = <<>>
    /\ wFile \in InitialFiles
    /\ wSupplied = IF wFile = <<>> THEN {} ELSE Range(parseExistingPatterns(wFile[1]))
    /\ wLast = <<>>
    /\ wBefore = <<>>
    /\ wCalls = 0

\* writeClawignore(workspace, patterns)
WriteClawignore ==
    /\ pc = "writer"
    /\ wCalls < MaxCalls
    /\ \E patterns \in SeqsUpTo(WriterPatterns, MaxPatterns) :
           /\ wFile' = <<WriteClawignoreContent(wFile, patterns)>>
           /\ wSupplied' = wSupplied \cup Range(patterns)
           /\ wLast' = patterns
    /\ wBefore' = <<wFile>>
    /\ wCalls' = wCalls + 1
    /\ UNCHANGED <<disk, isTTY, pc, tree, expanded, items, flatList, cursor,
                   selected, rawMode, outcome, browserOpened, scenario,
                   browseResult, pathsToMount, volumeMounts, written, reduceIn,
                   reduceOut, compilerVars, dockerVars, promptVars>>

NextWriter == WriteClawignore

SpecWriter == InitWriter /\ [][NextWriter]_vars

\* ------------------------------------------------------------------------
\* Specification that calls modifyDockerCompose on arbitrary compose files
\* ------------------------------------------------------------------------

\* the longest volumes list of a service, and the longest patterns array
MaxVolumes == 2
MaxBlocked == 2

VolumeChoices ==
    {Workspace \o ":/home/node/.openclaw/workspace",
     "${OPENCLAW_WORKSPACE_DIR}:/home/node/.openclaw/workspace",
     home \o "/.openclaw/logs:/home/node/.openclaw/logs"}

ServiceKeys == {{"gateway"}, {"openclaw"}, {"claw"}, {"web"}, {"gateway", "web"}}

BlockedPatterns == {".env", "keys/id_rsa"}

\* what findDockerComposeFile and parseYaml can give
ComposeFiles ==
    {<<>>, <<[parses |-> FALSE, services |-> <<>>]>>}
    \cup {<<[parses   |-> TRUE,
             services |-> [k \in keys |-> [volumes |-> v, labels |-> <<>>]]]>> :
              keys \in ServiceKeys, v \in SeqsUpTo(VolumeChoices, MaxVolumes)}

InitModify ==
    /\ disk = {}
    /\ isTTY = TRUE
    /\ hostConfig = AbsentConfig
    /\ config = NoConfig
    /\ pc = "modify"
    /\ Idle
    /\ WriterIdle
    /\ reduceIn = {}
    /\ reduceOut = <<>>
    /\ dcCompose \in ComposeFiles
    /\ dcPatterns \in SeqsUpTo(BlockedPatterns, MaxBlocked)
    /\ dcJson = <<>>
    /\ dcResult = "none"

NextModify ==
    \/ ModifyGivesUp
    \/ ModifyDockerCompose
    \/ ModifyWriteFails

SpecModify == InitModify /\ [][NextModify]_vars

\* ------------------------------------------------------------------------
\* Properties
\* ------------------------------------------------------------------------

\* the BrowseResult with two empty lists
EmptyResult == [ignoredPaths |-> {}, allPaths |-> <<>>]

Confirmed == browseResult # <<>> /\ outcome = "confirmed"

MountsComputed == pc \in {"writing", "done", "rejected"}

\* host path h exposes path d: h is d, a directory above d, or below d
Exposes(h, d) == h = d \/ StartsWith(d, h \o "/") \/ StartsWith(h, d \o "/")

\* C1: after Phase B Confirm and generateDockerCompose, no emitted volume
\* mount (baseline mounts included) has a host path that equals a denied
\* path, is an ancestor directory of it, or lies under it.
C1_Enforcement ==
    (Confirmed /\ MountsComputed) =>
        \A d \in browseResult[1].ignoredPaths :
            \A i \in DOMAIN volumeMounts : ~Exposes(MountHost(volumeMounts[i]), d)

\* the node under the cursor is a directory
CursorOnDirectory == HasNodeAt(flatList, cursor) /\ NodeAt(flatList, cursor).isDirectory

\* C2 (as stated): a Toggle on a directory followed at once by a second
\* Toggle leaves the SelectionState equal to its value before the first.
C2_ToggleInvolution ==
    [][(BrowserSpace /\ CursorOnDirectory)
          => SpaceSelected(flatList', cursor', selected') = selected]_vars

\* the listed descendants of the directory under the cursor are all
\* selected if the directory is selected, and all unselected if it is not
UniformUnderCursor ==
    LET path == NodeAt(flatList, cursor).path
        desc == FlatDescendants(flatList, path)
    IN  IF path \in selected THEN desc \subseteq selected ELSE desc \cap selected = {}

\* C2 (amended): a Toggle on a directory followed at once by a second Toggle
\* restores the SelectionState when, before the first Toggle, the nodes of
\* the flattened list under the directory were all selected (directory
\* selected) or all unselected (directory unselected).
C2_ToggleInvolutionUniform ==
    [][(BrowserSpace /\ CursorOnDirectory /\ UniformUnderCursor)
          => SpaceSelected(flatList', cursor', selected') = selected]_vars

\* a Toggle has just selected an expanded directory together with the
\* descendants listed under it
C2_Witness ==
    /\ pc = "browser"
    /\ Len(scenario) = 1
    /\ HasNodeAt(flatList, cursor)
    /\ NodeAt(flatList, cursor).path = scenario[1]
    /\ FlatDescendants(flatList, scenario[1]) # {}
    /\ FlatDescendants(flatList, scenario[1]) \subseteq selected

\* C3: select an unselected directory D (no descendant selected), deselect
\* exactly one child C of D, Confirm: the denied list holds every other
\* child of D, not D and not C.
C3_DeselectOneChild ==
    (Confirmed /\ Len(scenario) = 2) =>
        LET D == scenario[1]
            C == scenario[2]
            denied == browseResult[1].ignoredPaths
        IN  /\ (TreeChildren(tree, D) \ {C}) \subseteq denied
            /\ D \notin denied
            /\ C \notin denied

\* C4: Toggle on an unselected directory D adds D and the path of every
\* tree node under D; Toggle on a selected directory D removes D and every
\* selected path that starts with D + "/", whatever is expanded.
C4_TogglePropagation ==
    [][(BrowserSpace /\ CursorOnDirectory) =>
          LET D == NodeAt(flatList, cursor).path IN
          selected' = IF D \notin selected
                      THEN selected \cup {D} \cup TreeDescendants(tree, D)
                      ELSE (selected \ {D}) \ {q \in selected : StartsWith(q, D \o "/")}]_vars

\* a is a proper ancestor path of p
ProperAncestor(a, p) == StartsWith(p, a \o "/")

\* C5: on Confirm the returned ignoredPaths is exactly the set of selected
\* paths without a selected proper ancestor; no returned path lies under
\* another one, and every selected path is a returned path or lies under one.
C5_MinimalCover ==
    Confirmed =>
        LET denied == browseResult[1].ignoredPaths IN
        /\ denied = {q \in selected : ~\E a \in selected : ProperAncestor(a, q)}
        /\ \A q \in denied : ~\E a \in denied : ProperAncestor(a, q)
        /\ \A q \in selected : \E a \in denied : a = q \/ ProperAncestor(a, q)

\* Confirm has pruned a selected path that lies under another selected path
C5_Witness ==
    /\ Confirmed
    /\ \E q \in selected : q \notin browseResult[1].ignoredPaths
    /\ browseResult[1].ignoredPaths # {}

\* C6: the reduction applied to its own output returns that output.
C6_ReduceIdempotent ==
    Len(reduceOut) = 2 => reduceOut[2] = reduceOut[1]

\* the reduction ran twice on a set from which the first run pruned a path
C6_Witness ==
    /\ Len(reduceOut) = 2
    /\ reduceOut[1] # reduceIn
    /\ reduceOut[1] # {}

\* C7: escape / ctrl-c is accepted in every state of Phase A and Phase B and
\* ends the session in that step with two empty lists; once cancelled the
\* result stays, and after a cancel in Phase A Phase B is never entered.
C7_Cancellation ==
    /\ [](pc = "overview" => ENABLED OverviewEscape)
    /\ [](pc = "browser" => ENABLED BrowserEscape)
    /\ [](outcome = "cancelled" =>
             pc \notin {"overview", "browser"} /\ browseResult = <<EmptyResult>>)
    /\ [][(pc \in {"overview", "browser"} /\ (OverviewEscape \/ BrowserEscape))
             => (outcome' = "cancelled" /\ pc' = "returned")]_vars
    /\ [][(outcome' = "cancelled") => (browserOpened' = browserOpened)]_vars

\* a session cancelled in Phase B after something was selected and expanded
C7_Witness ==
    /\ outcome = "cancelled"
    /\ browserOpened
    /\ selected # {}
    /\ pc = "returned"

\* C8: no artifact is written before Phase B Confirm, and a cancelled
\* session leaves all four unwritten.
C8_NoWriteBeforeConfirm ==
    /\ written # <<>> => (outcome = "confirmed" /\ pc \in {"writing", "done", "rejected"})
    /\ outcome \in {"none", "cancelled"} => written = <<>>

\* a confirmed session that has written the four artifacts
C8_Witness == outcome = "confirmed" /\ pc = "done" /\ Len(written) = Len(Artifacts)

\* C9: the result of Confirm with an empty SelectionState differs from the
\* result of a cancel, for every tree, and the caller does not take it for
\* a cancellation.
C9_CancelDistinct ==
    (Confirmed /\ selected = {}) =>
        /\ browseResult[1] # EmptyResult
        /\ pc # "exit0"

\* C10: with stdin not a TTY the browser neither waits for keys nor
\* returns a BrowseResult.
C10_NoTTYFails ==
    ~isTTY => (pc \notin {"overview", "browser"} /\ browseResult = <<>>)

\* C11: for every allPaths, generateVolumeMounts emits no two entries with
\* the same container-side path.
C11_NoContainerCollision ==
    MountsComputed =>
        \A i, j \in DOMAIN volumeMounts :
            i # j => MountContainer(volumeMounts[i]) # MountContainer(volumeMounts[j])

\* p is d or lies below d, for some d of the denied array
DeniedOrBelow(p, denied) ==
    \E i \in DOMAIN denied :
        \/ p = denied[i]
        \/ /\ Len(p) > Len(denied[i])
           /\ SubSeq(p, 1, Len(denied[i])) = denied[i]
           /\ CharAt(p, Len(denied[i]) + 1) = "/"

RECURSIVE KeptSubsequence(_, _)
KeptSubsequence(paths, denied) ==
    IF paths = <<>> THEN <<>>
    ELSE (IF DeniedOrBelow(Head(paths), denied) THEN <<>> ELSE <<Head(paths)>>)
         \o KeptSubsequence(Tail(paths), denied)

\* C12: pathsToMount is the order-preserving subsequence of allPaths made of
\* the paths that neither equal a denied path nor start with one followed by
\* "/"; a sibling that only shares a string prefix with a denied path is kept.
C12_FilterBoundary ==
    MountsComputed =>
        /\ pathsToMount = KeptSubsequence(config.allPaths, config.ignoredPaths)
        /\ \A i \in DOMAIN config.allPaths :
               (config.allPaths[i] = "/h/.ssh-backup" /\ config.ignoredPaths = <<"/h/.ssh">>)
                   => "/h/.ssh-backup" \in Range(pathsToMount)

\* /h/.ssh is denied, and allPaths holds it next to /h/.ssh-backup
C12_Witness ==
    /\ pc = "done"
    /\ config.ignoredPaths = <<"/h/.ssh">>
    /\ {"/h/.ssh", "/h/.ssh-backup"} \subseteq Range(config.allPaths)
    /\ pathsToMount = <<"/h/.ssh-backup">>

WorkspaceSubdirectory(m) ==
    StartsWith(MountContainer(m), "/home/node/.openclaw/workspace/")

\* C13: every emitted mount into a subdirectory of the container workspace
\* has a host path that stat reports as a directory; a candidate that is a
\* regular file or cannot be stat'ed gets no mount, and the compile goes on
\* to its writes.
C13_DirectoryOnly ==
    MountsComputed =>
        /\ \A i \in DOMAIN volumeMounts :
               WorkspaceSubdirectory(volumeMounts[i])
                   => StatIsDirectory(disk, MountHost(volumeMounts[i]))
        /\ \A k \in DOMAIN pathsToMount :
               ~StatIsDirectory(disk, pathsToMount[k])
                   => \A i \in DOMAIN volumeMounts :
                          MountHost(volumeMounts[i]) # pathsToMount[k]
        /\ pc = "rejected" => attempted # <<>>

\* a regular file and a missing path were candidates next to a directory
C13_Witness ==
    /\ pc = "done"
    /\ {"/h/f", "/h/gone"} \subseteq Range(pathsToMount)
    /\ \E i \in DOMAIN volumeMounts : WorkspaceSubdirectory(volumeMounts[i])

\* the baseline of the mount plan: host path, container path, mode
ExpectedBaseline ==
    <<<<"/h/.openclaw/openclaw.docker.json", "/home/node/.openclaw/openclaw.json", "ro">>,
      <<"/h/.openclaw/credentials", "/home/node/.openclaw/credentials", "ro">>,
      <<"/h/.openclaw/memory", "/home/node/.openclaw/memory", "rw">>,
      <<"/h/.openclaw/logs", "/home/node/.openclaw/logs", "rw">>,
      <<"/h/.openclaw/canvas", "/home/node/.openclaw/canvas", "rw">>,
      <<"/h/.openclaw/media", "/home/node/.openclaw/media", "rw">>,
      <<"/h/.openclaw/cron", "/home/node/.openclaw/cron", "rw">>,
      <<"/h/.openclaw/agents", "/home/node/.openclaw/agents", "rw">>,
      <<"/h/.openclaw/subagents", "/home/node/.openclaw/subagents", "rw">>,
      <<"/h/.openclaw/telegram", "/home/node/.openclaw/telegram", "rw">>,
      <<"/h/.openclaw/delivery-queue", "/home/node/.openclaw/delivery-queue", "rw">>,
      <<"/h/.openclaw/devices", "/home/node/.openclaw/devices", "rw">>,
      <<"/h/.openclaw/identity", "/home/node/.openclaw/identity", "rw">>,
      <<"/h/.openclaw/.clawignore", "/home/node/.openclaw/.clawignore", "ro">>,
      <<"/h/.openclaw/workspace", "/home/node/.openclaw/workspace", "rw">>>>

\* a volume entry as host path, container path and mode (read-write unless
\* the entry ends in :ro)
MountTriple(m) ==
    LET parts == Split(m, ":")
    IN  <<parts[1], parts[2], IF Len(parts) >= 3 THEN parts[3] ELSE "rw">>

\* C14: the baseline mounts come first, in the same order and modes for every
\* input; the selection only adds entries after them, and an empty allPaths
\* gives exactly the baseline.
C14_BaselineFirst ==
    MountsComputed =>
        /\ Len(volumeMounts) >= Len(ExpectedBaseline)
        /\ \A i \in DOMAIN ExpectedBaseline :
               MountTriple(volumeMounts[i]) = ExpectedBaseline[i]
        /\ \A i \in DOMAIN volumeMounts :
               i > Len(ExpectedBaseline)
                   => MountHost(volumeMounts[i]) \in Range(config.allPaths)
        /\ config.allPaths = <<>> => Len(volumeMounts) = Len(ExpectedBaseline)

\* a compile whose selection added mounts after the baseline
C14_Witness ==
    /\ pc = "done"
    /\ Len(volumeMounts) > Len(ExpectedBaseline)
    /\ MountTriple(volumeMounts[Len(ExpectedBaseline) + 1])[3] = "rw"

\* the configuration carries a gateway token (a non-empty string)
TokenSupplied == config.gatewayToken # <<>> /\ config.gatewayToken[1] # ""

SecondRunDone == pc = "done" /\ firstRun # <<>>

ContentLineNumbers(lines) ==
    {k \in DOMAIN lines : Trim(lines[k]) # "" /\ ~StartsWith(Trim(lines[k]), "#")}

\* the comment line a line stands under: the nearest one above it
HeaderAbove(lines, k) ==
    LET above == {j \in 1..(k - 1) : StartsWith(lines[j], "#")}
    IN  IF above = {} THEN ""
        ELSE lines[CHOOSE j \in above : \A i \in above : i <= j]

\* C16: the ignore-list written by generateDockerCompose has as content lines
\* exactly the denied paths, each under the category header that the
\* keyword-to-category mapping gives it.
C16_CategorizedIgnoreList ==
    (".clawignore" \in DOMAIN onDisk) =>
        LET lines == Split(onDisk[".clawignore"], "\n")
        IN  /\ {lines[k] : k \in ContentLineNumbers(lines)} = Range(config.ignoredPaths)
            /\ \A k \in ContentLineNumbers(lines) :
                   HeaderAbove(lines, k) = CATEGORY_COMMENTS[categorizePattern(lines[k])]

\* the content lines of the ignore-list file, trimmed
FileContentLines(file) ==
    IF file = <<>> THEN {}
    ELSE LET lines == Split(file[1], "\n")
         IN  {Trim(lines[k]) : k \in ContentLineNumbers(lines)}

NoContentLineTwice(file) ==
    file # <<>> =>
        LET lines == Split(file[1], "\n")
        IN  \A j, k \in ContentLineNumbers(lines) :
                j # k => Trim(lines[j]) # Trim(lines[k])

\* the latest call supplied only patterns the file already held
OnlyPresentSupplied ==
    /\ wCalls > 0
    /\ Range(wLast) \subseteq FileContentLines(wBefore[1])

\* C17: after any sequence of writeClawignore calls the set of content lines
\* of the file is the union of all patterns supplied so far and of those in
\* the file before the first call, no content line occurs twice, and a call
\* that supplies only patterns already present leaves the file content
\* unchanged.
C17_SetUnion ==
    wCalls > 0 =>
        /\ FileContentLines(wFile) = wSupplied
        /\ NoContentLineTwice(wFile)
        /\ OnlyPresentSupplied => wFile = wBefore[1]

\* a pattern that is a content line of the file format as it stands
IsContentLine(q) == q # "" /\ Trim(q) = q /\ ~StartsWith(q, "#") /\ ~Includes(q, "\n")

\* C17, amended: for supplied patterns that are content lines themselves
\* (non-empty, trimmed, not starting with #), the set of content lines is
\* the union of the supplied patterns and of those found before the first
\* call, no content line occurs twice, and a call that supplies only
\* patterns already present leaves the set of content lines unchanged; it
\* leaves the file content unchanged when an earlier writeClawignore call
\* wrote the file.
C17_SetUnionNormalized ==
    (wCalls > 0 /\ \A q \in wSupplied : IsContentLine(q)) =>
        /\ FileContentLines(wFile) = wSupplied
        /\ NoContentLineTwice(wFile)
        /\ OnlyPresentSupplied =>
               /\ FileContentLines(wFile) = FileContentLines(wBefore[1])
               /\ wCalls > 1 => wFile = wBefore[1]

\* a second or later call that supplied only patterns already in the file,
\* the file holding patterns of more than one call
C17_Witness ==
    /\ wCalls > 1
    /\ \A q \in wSupplied : IsContentLine(q)
    /\ wLast # <<>>
    /\ OnlyPresentSupplied
    /\ Cardinality(wSupplied) >= 3
    /\ wFile = wBefore[1]

\* C18: when ~/.openclaw/openclaw.json cannot be read, and also when it is
\* read but malformed, the compile does not fail and the config artifact is
\* the synthesized minimal default; malformed content is never copied.
C18_ConfigFallback ==
    /\ (pc = "rejected") => attempted # <<>>
    /\ ("openclaw.docker.json" \in DOMAIN onDisk
            /\ (~hostConfig.readable \/ ~hostConfig.wellFormed))
           => onDisk["openclaw.docker.json"] = MinimalDockerConfig

\* the artifacts from number i on
ArtifactsFrom(i) == {Artifacts[k] : k \in i..Len(Artifacts)}

\* C19: the artifacts are written in the order compose file, .env,
\* ignore-list, config artifact; when the k-th write fails the call rejects,
\* every write has been attempted at most once, no later artifact has been
\* written by the call, and the artifacts before the k-th are in place.
C19_WriteFailureFatal ==
    /\ written = SubSeq(Artifacts, 1, Len(written))
    /\ attempted = SubSeq(Artifacts, 1, Len(attempted))
    /\ pc \in {"writing", "done"} => attempted = written
    /\ pc = "rejected" =>
           /\ Len(attempted) = Len(written) + 1
           /\ Range(written) \cap ArtifactsFrom(Len(attempted)) = {}
           /\ \A k \in DOMAIN written :
                  /\ written[k] \in DOMAIN onDisk
                  /\ onDisk[written[k]] = ArtifactContent(written[k])
           /\ firstRun = <<>> => DOMAIN onDisk = Range(written)

\* the third write of a first call failed: two artifacts are in place
C19_Witness ==
    /\ pc = "rejected"
    /\ firstRun = <<>>
    /\ attempted = <<"docker-compose.yml", ".env", ".clawignore">>
    /\ DOMAIN onDisk = {"docker-compose.yml", ".env"}

\* the host directory a volume entry mounts
VolumeHost(v) ==
    LET h == Split(v, ":")[1]
    IN  IF Includes(h, "OPENCLAW_WORKSPACE") THEN Workspace ELSE h

\* C20: whenever modifyDockerCompose returns true, no volume of the gateway
\* service in the rewritten compose file mounts a blocked file of the
\* workspace, be it the file itself or a directory above it.
C20_BlockedExcluded ==
    dcResult = "true" =>
        LET key     == GatewayServiceKey(dcCompose[1])[1]
            volumes == dcCompose[1].services[key].volumes
        IN  \A i \in DOMAIN volumes, k \in DOMAIN dcPatterns :
                LET blocked == Workspace \o "/" \o dcPatterns[k]
                IN  /\ VolumeHost(volumes[i]) # blocked
                    /\ ~StartsWith(blocked, VolumeHost(volumes[i]) \o "/")

\* C21: in Phase A and in Phase B the cursor is never below 0 and never
\* beyond the last index of the current list, and every Toggle, Expand or
\* Collapse acts on an existing list element, for every tree, the one
\* without entries included.
C21_CursorValid ==
    /\ pc = "overview" => (cursor >= 0 /\ cursor < Len(items))
    /\ pc = "browser" => (cursor >= 0 /\ cursor <= Max(0, Len(flatList) - 1))
    /\ pc # "crashed"

\* the directories of the tree above a path
TreeAncestors(t, path) ==
    {n.path : n \in {m \in Range(AllNodes(t)) : StartsWith(path, m.path \o "/")}}

\* C22: the flattened list is the pre-order listing of the tree nodes all of
\* whose ancestors are expanded, each once and children right after their
\* parent; a collapse clears the flag of the collapsed directory only, so
\* the flags of nested directories survive it and a later expand shows the
\* earlier view again.
C22_FlattenedView ==
    /\ [](pc = "browser" =>
            flatList = SelectSeq(AllNodes(tree),
                                 LAMBDA n : TreeAncestors(tree, n.path) \subseteq expanded))
    /\ [][(BrowserLeft /\ expanded' # expanded)
              => expanded' = expanded \ {NodeAt(flatList, cursor).path}]_vars
    /\ [][(BrowserRight /\ expanded' # expanded)
              => expanded' = expanded \cup {NodeAt(flatList, cursor).path}]_vars

\* /h/d is collapsed while the nested /h/d/e keeps its expanded flag
C22_Witness ==
    /\ pc = "browser"
    /\ "/h/d/e" \in expanded
    /\ "/h/d" \notin expanded
    /\ \A i \in DOMAIN flatList : flatList[i].depth = 0

\* C26: on Phase B Confirm, allPaths is the list of the paths of all depth-0
\* nodes of the tree, in tree order, whatever the expansion state, the
\* cursor and the selection are.
C26_AllPathsTopLevel ==
    [][BrowserReturn =>
          browseResult'[1].allPaths = [i \in 1..Len(tree) |-> tree[i].path]]_vars

\* a confirmed session that had denied a depth-0 node and a deeper one
C26_Witness ==
    /\ Confirmed
    /\ Len(browseResult[1].allPaths) >= 2
    /\ \E i \in DOMAIN browseResult[1].allPaths : browseResult[1].allPaths[i] \in selected
    /\ \E q \in selected : q \in TreeDescendants(tree, "/h/d")

\* C28: Expand and Collapse leave the cursor index, the node under the
\* cursor and the selection unchanged; Toggle leaves the cursor, the
\* expanded flags and the flattened list unchanged.
C28_CursorFrame ==
    /\ [][((BrowserRight \/ BrowserLeft) /\ expanded' # expanded) =>
              /\ cursor' = cursor
              /\ HasNodeAt(flatList', cursor')
              /\ NodeAt(flatList', cursor').path = NodeAt(flatList, cursor).path
              /\ NodeAt(flatList, cursor).isDirectory
              /\ selected' = selected]_vars
    /\ [][BrowserSpace =>
              /\ cursor' = cursor
              /\ expanded' = expanded
              /\ flatList' = flatList]_vars

\* /h/d stands below /h/.openclaw in the list and was expanded there
C28_Witness ==
    /\ pc = "browser"
    /\ cursor > 0
    /\ HasNodeAt(flatList, cursor)
    /\ NodeAt(flatList, cursor).path \in expanded
    /\ selected # {}

\* the sensitive nodes of a tree, in tree order
SensitiveNodes(t) == SelectSeq(AllNodes(t), LAMBDA n : n.isSensitive)

\* the paths of the items that are selected
SelectedItemPaths(its) == {its[i].path : i \in {j \in DOMAIN its : its[j].selected}}

\* C23: Phase A is entered exactly when the tree has a sensitive node, with
\* one item per sensitive node and every item selected; Confirm in Phase A
\* opens Phase B with exactly the paths of the selected items as selection;
\* when Phase A is skipped Phase B starts with the empty selection.
C23_OverviewSeedsBrowser ==
    /\ [][StartBrowse =>
            LET sens == SensitiveNodes(tree') IN
            /\ (pc' = "overview") <=> (Len(sens) > 0)
            /\ pc' = "overview" =>
                  /\ Len(items') = Len(sens)
                  /\ \A i \in DOMAIN sens :
                        items'[i].path = sens[i].path /\ items'[i].selected
            /\ pc' # "overview" => (pc' = "browser" /\ selected' = {})]_vars
    /\ [][OverviewSpace =>
            \A i \in DOMAIN items :
               items'[i].selected = IF i = cursor + 1 THEN ~items[i].selected
                                    ELSE items[i].selected]_vars
    /\ [][OverviewSelectAll => SelectedItemPaths(items') = {items[i].path : i \in DOMAIN items}]_vars
    /\ [][OverviewDeselectAll => SelectedItemPaths(items') = {}]_vars
    /\ [][OverviewReturn =>
            /\ pc' = "browser"
            /\ selected' = SelectedItemPaths(items)]_vars

\* Phase B opened on two of the four sensitive entries
C23_Witness ==
    /\ pc = "browser"
    /\ Len(SensitiveNodes(tree)) = 4
    /\ selected = {"/h/.env", "/h/token.pem"}
    /\ expanded = {}
    /\ cursor = 0

\* the reasons getSensitiveReason gives for the extension rule
ExtensionReasons ==
    {"Private key file", "Certificate with private key", "Java keystore"}

\* C24: an item whose name matches the extension rule and the keyword rule,
\* and no rule before them, is shown with the reason of the extension rule.
C24_ReasonOrder ==
    \A i \in DOMAIN items :
       LET lowerName == ToLowerCase(items[i].name) IN
       ( /\ lowerName \notin SENSITIVE_PATTERNS
         /\ ~(StartsWith(lowerName, ".env.") \/ lowerName = ".env")
         /\ \E ext \in SENSITIVE_EXTENSIONS : EndsWith(lowerName, ext)
         /\ \E keyword \in SENSITIVE_KEYWORDS : Includes(lowerName, keyword) )
       => items[i].reason \in ExtensionReasons

\* buildFileTree has run and its tree is in use
TreeBuilt == pc \in {"overview", "browser"}

\* the depth of a disk entry below the home directory
EntryDepth(e) == Len(Split(RelativePath(home, EntryPath(e)), "/")) - 1

\* neither the entry nor a directory above it is dropped by a skip rule
NotSkipped(fs, e) ==
    \A q \in fs :
       (q = e \/ StartsWith(EntryPath(e), EntryPath(q) \o "/"))
           => ~SkipEntry(q.name, EntryDepth(q))

\* C25: entries are listed at every depth from 0 to maxDepth; a directory
\* at depth maxDepth is listed without children; no node is deeper than
\* maxDepth; a child's depth is its parent's plus one; a non-directory has
\* no children field.
C25_DepthBound ==
    TreeBuilt =>
       LET nodes == Range(AllNodes(tree)) IN
       /\ \A e \in disk :
             (EntryDepth(e) <= maxDepth /\ NotSkipped(disk, e))
                => \E n \in nodes : n.path = EntryPath(e) /\ n.depth = EntryDepth(e)
       /\ \A n \in nodes :
             /\ n.depth <= maxDepth
             /\ (n.isDirectory /\ n.depth = maxDepth) => n.children = <<>>
             /\ ~n.isDirectory => ~HasChildren(n)
             /\ HasChildren(n) =>
                   \A i \in DOMAIN n.children : n.children[i].depth = n.depth + 1

\* C29: the answer to 'Block all detected sensitive files?' fixes the
\* selection the browser starts with: nothing with 'skip', the paths the
\* scanner found with 'all' and with 'choose'.
C29_AnswerSeedsSelection ==
    [][(StartBrowse /\ blockChoice \in {"all", "choose", "skip"}) =>
          LET initial == IF pc' = "overview" THEN SelectedItemPaths(items')
                         ELSE selected'
          IN  initial = IF blockChoice = "skip" THEN {} ELSE preSelectedPaths]_vars

\* C30: every entry within the depth bound whose name the classifier flags,
\* in a directory that is listed, has a tree node and is an item of Phase A.
C30_FlaggedListed ==
    TreeBuilt =>
       \A e \in disk :
          ( /\ EntryDepth(e) < maxDepth
            /\ isSensitivePath(e.name)
            /\ \A q \in disk : StartsWith(EntryPath(e), EntryPath(q) \o "/")
                                  => ~SkipEntry(q.name, EntryDepth(q)) )
          => /\ \E n \in Range(AllNodes(tree)) : n.path = EntryPath(e)
             /\ pc = "overview" => \E i \in DOMAIN items : items[i].path = EntryPath(e)

\* C27: the read-only mounts of the container's openclaw.json and
\* .clawignore have as host path the path generateDockerCompose writes
\* openclaw.docker.json and .clawignore to, for every openclawRoot that
\* workspace discovery can yield.
C27_MountSourceIsWritten ==
    MountsComputed =>
       \A i \in DOMAIN volumeMounts :
          LET m == volumeMounts[i] IN
          /\ MountContainer(m) = "/home/node/.openclaw/openclaw.json"
                => MountHost(m) = ArtifactPath(config.openclawRoot, "openclaw.docker.json")
          /\ MountContainer(m) = "/home/node/.openclaw/.clawignore"
                => MountHost(m) = ArtifactPath(config.openclawRoot, ".clawignore")

====
